---- MODULE Spec2Model ----
(***************************************************************************)
(* Ghost Path plugin (src/main.ts): the editor-change handler that rewrites *)
(* short wikilinks to full paths, the CodeMirror view plugin that hides the *)
(* folder prefix, and the debounce helper that schedules the handler.       *)
(*                                                                          *)
(* Strings are sequences of one-character strings.  Offsets are 0-based as  *)
(* in JavaScript: the character at offset i of s is s[i+1].                 *)
(***************************************************************************)
EXTENDS Integers, Sequences, FiniteSets, TLC

VARIABLES
    text,            \* editor.getValue(): the document of the editor
    cursor,          \* editor.getCursor(): [line, ch]
    activeFile,      \* app.workspace.getActiveFile(): a path, or NoFile
    linkIndex,       \* app.metadataCache: linkpath -> path of the destination file
    lastRun,         \* history: what the last run of handleEditorChange did
                     \* (after: it followed a run that applied a rewrite; editor:
                     \* the editor it was passed; sourcePath: the path it resolved
                     \* against)
    displayAsShortName,  \* this.settings.displayAsShortName
    lastSetting,     \* this._lastSetting of the view plugin
    decorations,     \* this.decorations of the view plugin: ranges in add order
    visibleRanges,   \* view.visibleRanges: [from, to] windows of the document
    lastUpdate,      \* history: the last event of the view plugin
    typed,           \* history: pieces of text typed so far
    timers,          \* the host's pending timeouts: [id, remaining, args], args
                     \* being the editor the callback passes to the handler
    t,               \* the variable t of the debounce closure (0: undefined)
    nextId,          \* the id the next setTimeout returns
    burst,           \* history of the triggers: ms since the last trigger (capped at
                     \* Wait), triggers and handler runs of the current burst (a
                     \* burst starts with a trigger that finds nothing pending),
                     \* and handler runs since the last edit of the user
    second,          \* a second editor of the workspace: [text, cursor]
    dirty            \* history: the editors changed since a handler last ran on them

(***************************************************************************)
(* String helpers (JavaScript String methods used by the source)           *)
(***************************************************************************)
Min(a, b) == IF a < b THEN a ELSE b
Max(a, b) == IF a > b THEN a ELSE b

\* s.slice(from, to) with 0 <= from
Slice(s, from, to) == SubSeq(s, from + 1, Min(to, Len(s)))

\* s.slice(from)
SliceFrom(s, from) == SubSeq(s, from + 1, Len(s))

\* s.includes(c) for a one-character c
Includes(s, c) == \E k \in 1..Len(s) : s[k] = c

\* s.lastIndexOf(c) for a one-character c, -1 when absent
RECURSIVE LastIndexOfFrom(_, _, _)
LastIndexOfFrom(s, c, k) ==
    IF k < 0 THEN -1
    ELSE IF s[k + 1] = c THEN k
    ELSE LastIndexOfFrom(s, c, k - 1)

LastIndexOf(s, c) == LastIndexOfFrom(s, c, Len(s) - 1)

\* `[[${inner}]]`
Link(inner) == <<"[", "[">> \o inner \o <<"]", "]">>

(***************************************************************************)
(* The pattern /\[\[([^\]]+?)\]\]/g                                        *)
(***************************************************************************)
NoMatch == [index |-> -1, inner |-> <<>>, full |-> <<>>]

\* The lazy group ([^\]]+?) opened at offset i+2: try an inner text of n
\* characters, then n+1, ...  The result is the length matched, 0 for none.
RECURSIVE LazyInner(_, _, _)
LazyInner(s, i, n) ==
    IF i + 2 + n > Len(s) THEN 0
    ELSE IF s[i + 2 + n] = "]" THEN 0
    ELSE IF /\ i + 4 + n <= Len(s)
            /\ s[i + 3 + n] = "]"
            /\ s[i + 4 + n] = "]"
         THEN n
    ELSE LazyInner(s, i, n + 1)

\* One attempt of the pattern at offset i.
MatchAt(s, i) ==
    IF /\ i + 2 <= Len(s)
       /\ s[i + 1] = "["
       /\ s[i + 2] = "["
    THEN LazyInner(s, i, 1)
    ELSE 0

\* REGEX.exec(s) with REGEX.lastIndex = lastIndex: the leftmost match at or
\* after lastIndex, or NoMatch (null).
RECURSIVE RegexExec(_, _)
RegexExec(s, lastIndex) ==
    IF lastIndex >= Len(s) THEN NoMatch
    ELSE LET n == MatchAt(s, lastIndex) IN
         IF n > 0
         THEN [index |-> lastIndex,
               inner |-> SubSeq(s, lastIndex + 3, lastIndex + 2 + n),
               full  |-> SubSeq(s, lastIndex + 1, lastIndex + 4 + n)]
         ELSE RegexExec(s, lastIndex + 1)

(***************************************************************************)
(* Host collaborators: metadata cache and editor positions                 *)
(***************************************************************************)
NoFile == <<>>

\* this.app.metadataCache.getFirstLinkpathDest(inner, sourcePath)
getFirstLinkpathDest(index, inner, sourcePath) ==
    IF inner \in DOMAIN index THEN index[inner] ELSE NoFile

\* dest.path.replace(/\.md$/, '')
StripMd(path) ==
    IF /\ Len(path) >= 3
       /\ SubSeq(path, Len(path) - 2, Len(path)) = <<".", "m", "d">>
    THEN SubSeq(path, 1, Len(path) - 3)
    ELSE path

\* editor.posToOffset(pos) on document s
RECURSIVE PosToOffsetFrom(_, _, _, _)
PosToOffsetFrom(s, i, line, ch) ==
    IF line = 0 THEN Min(i + ch, Len(s))
    ELSE IF i >= Len(s) THEN Len(s)
    ELSE IF s[i + 1] = "\n" THEN PosToOffsetFrom(s, i + 1, line - 1, ch)
    ELSE PosToOffsetFrom(s, i + 1, line, ch)

posToOffset(s, pos) == PosToOffsetFrom(s, 0, pos.line, pos.ch)

\* editor.offsetToPos(offset) on document s
RECURSIVE OffsetToPosFrom(_, _, _, _, _)
OffsetToPosFrom(s, i, offset, line, ch) ==
    IF i >= offset \/ i >= Len(s) THEN [line |-> line, ch |-> ch]
    ELSE IF s[i + 1] = "\n" THEN OffsetToPosFrom(s, i + 1, offset, line + 1, 0)
    ELSE OffsetToPosFrom(s, i + 1, offset, line, ch + 1)

offsetToPos(s, offset) == OffsetToPosFrom(s, 0, offset, 0, 0)

(***************************************************************************)
(* The view plugin: buildDecorations and update (src/main.ts 118-170)      *)
(***************************************************************************)
\* (mutant) `inner.indexOf('/')`: the first slash, not the last
RECURSIVE IndexOfFrom(_, _, _)
IndexOfFrom(s, c, k) ==
    IF k >= Len(s) THEN -1
    ELSE IF s[k + 1] = c THEN k
    ELSE IndexOfFrom(s, c, k + 1)

PrefixRangeFirstSlash(from, match) ==
    [from |-> from + match.index + 2,
     to   |-> from + match.index + 2 + IndexOfFrom(match.inner, "/", 0) + 1]

\* (mutant) `start = match.index`: the offset of the window is dropped
PrefixRangeInSlice(from, match) ==
    [from |-> match.index + 2,
     to   |-> match.index + 2 + LastIndexOf(match.inner, "/") + 1]

\* start = from + match.index; innerStart = start + 2;
\* prefixEnd = innerStart + inner.lastIndexOf('/') + 1;
\* builder.add(innerStart, prefixEnd, ...)
PrefixRange(from, match) ==
    [from |-> from + match.index + 2,
     to   |-> from + match.index + 2 + LastIndexOf(match.inner, "/") + 1]

\* while ((match = REGEX.exec(slice)) !== null) { ... } for one visible range
RECURSIVE DecorateSlice(_, _, _)
RECURSIVE DecorateFrom(_, _, _)
DecorateFrom(slice, match, from) ==
    IF match.index = -1 THEN <<>>
    ELSE (IF ~Includes(match.inner, "/") THEN <<>>
          ELSE <<PrefixRange(from, match)>>)
         \o DecorateSlice(slice, match.index + Len(match.full), from)

DecorateSlice(slice, lastIndex, from) ==
    DecorateFrom(slice, RegexExec(slice, lastIndex), from)

\* for (const { from, to } of view.visibleRanges) { slice = text.slice(from, to) ... }
RECURSIVE DecorateRanges(_, _)
DecorateRanges(docText, ranges) ==
    IF ranges = <<>> THEN <<>>
    ELSE DecorateSlice(Slice(docText, Head(ranges).from, Head(ranges).to),
                       0, Head(ranges).from)
         \o DecorateRanges(docText, Tail(ranges))

\* (mutant) the build without `if (!displayAsShortName) return Decoration.none`
buildDecorationsAlways(docText, ranges, setting) == DecorateRanges(docText, ranges)

\* buildDecorations(view): the ranges returned (this._lastSetting is set by
\* the caller below)
buildDecorations(docText, ranges, setting) ==
    IF ~setting THEN <<>>
    ELSE DecorateRanges(docText, ranges)

\* (mutant) update() without the `displayAsShortName !== this._lastSetting` test
UpdateViewNoSettingTest(docChanged, viewportChanged) ==
    /\ decorations' =
           IF docChanged \/ viewportChanged
           THEN buildDecorations(text', visibleRanges', displayAsShortName)
           ELSE decorations
    /\ lastSetting' =
           IF docChanged \/ viewportChanged
           THEN displayAsShortName
           ELSE lastSetting
    /\ lastUpdate' =
           [event |-> "update", docChanged |-> docChanged,
            viewportChanged |-> viewportChanged,
            rebuilt |-> (docChanged \/ viewportChanged),
            hadRanges |-> (decorations # <<>>)]
    /\ UNCHANGED displayAsShortName

\* update(update): rebuild on a document change, a viewport change, or when
\* the setting differs from the one remembered by the last build.
UpdateView(docChanged, viewportChanged) ==
    /\ decorations' =
           IF docChanged \/ viewportChanged \/ displayAsShortName # lastSetting
           THEN buildDecorations(text', visibleRanges', displayAsShortName)
           ELSE decorations
    /\ lastSetting' =
           IF docChanged \/ viewportChanged \/ displayAsShortName # lastSetting
           THEN displayAsShortName
           ELSE lastSetting
    /\ lastUpdate' =
           [event |-> "update", docChanged |-> docChanged,
            viewportChanged |-> viewportChanged,
            rebuilt |-> (docChanged \/ viewportChanged
                            \/ displayAsShortName # lastSetting),
            hadRanges |-> (decorations # <<>>)]
    /\ UNCHANGED displayAsShortName

\* The whole document as one visible range.
FullView(docText) == <<[from |-> 0, to |-> Len(docText)]>>

\* editor.setValue(newContent) reaches the view as a document change.
ViewAfterSetValue ==
    /\ visibleRanges' = FullView(text')
    /\ UpdateView(TRUE, visibleRanges' # visibleRanges)

rewriteState == <<cursor, activeFile, linkIndex, lastRun>>
debounceState == <<timers, t, nextId, burst>>
editorsState == <<second, dirty>>
viewState == <<displayAsShortName, lastSetting, decorations, visibleRanges, lastUpdate>>

(***************************************************************************)
(* handleEditorChange (src/main.ts 226-316)                                *)
(***************************************************************************)
\* (mutant) the loop body without the `inner.includes('/')` skip
ReplacementForAnyInner(match, dest) ==
    IF dest = NoFile THEN <<>>
    ELSE IF Link(StripMd(dest)) # match.full
         THEN <<[start |-> match.index,
                 end |-> match.index + Len(match.full),
                 replacement |-> Link(StripMd(dest))]>>
    ELSE <<>>

\* (mutant) the loop body without the `replacement !== fullMatch` test
ReplacementForEvenIfSame(match, dest) ==
    IF Includes(match.inner, "/") THEN <<>>
    ELSE IF dest = NoFile THEN <<>>
    ELSE <<[start |-> match.index,
            end |-> match.index + Len(match.full),
            replacement |-> Link(StripMd(dest))]>>

\* The body of the while loop for one match: skip a full path, skip a miss,
\* record a replacement that differs from the text matched.
ReplacementFor(match, dest) ==
    IF Includes(match.inner, "/") THEN <<>>
    ELSE IF dest = NoFile THEN <<>>
    ELSE IF Link(StripMd(dest)) # match.full
         THEN <<[start |-> match.index,
                 end |-> match.index + Len(match.full),
                 replacement |-> Link(StripMd(dest))]>>
    ELSE <<>>

\* The while loop over REGEX.exec(original) that fills `replacements`.
RECURSIVE CollectReplacements(_, _, _, _)
RECURSIVE CollectFrom(_, _, _, _)

\* (mutant) a miss ends the loop (`break` in place of `continue`)
CollectFromStopOnMiss(original, match, index, sourcePath) ==
    IF match.index = -1 THEN <<>>
    ELSE IF /\ ~Includes(match.inner, "/")
            /\ getFirstLinkpathDest(index, match.inner, sourcePath) = NoFile
         THEN <<>>
    ELSE ReplacementFor(match, getFirstLinkpathDest(index, match.inner, sourcePath))
         \o CollectReplacements(original, match.index + Len(match.full), index, sourcePath)

CollectFrom(original, match, index, sourcePath) ==
    IF match.index = -1 THEN <<>>
    ELSE ReplacementFor(match, getFirstLinkpathDest(index, match.inner, sourcePath))
         \o CollectReplacements(original, match.index + Len(match.full), index, sourcePath)

CollectReplacements(original, lastIndex, index, sourcePath) ==
    CollectFrom(original, RegexExec(original, lastIndex), index, sourcePath)

\* Whether the loop calls getFirstLinkpathDest at all (some match has no slash).
RECURSIVE CallsResolver(_, _)
RECURSIVE CallsResolverFrom(_, _)
CallsResolverFrom(original, match) ==
    IF match.index = -1 THEN FALSE
    ELSE \/ ~Includes(match.inner, "/")
         \/ CallsResolver(original, match.index + Len(match.full))

CallsResolver(original, lastIndex) ==
    CallsResolverFrom(original, RegexExec(original, lastIndex))

\* replacements.sort((a, b) => b.start - a.start)
RECURSIVE InsertDesc(_, _)
InsertDesc(r, sorted) ==
    IF sorted = <<>> THEN <<r>>
    ELSE IF Head(sorted).start >= r.start
         THEN <<Head(sorted)>> \o InsertDesc(r, Tail(sorted))
    ELSE <<r>> \o sorted

RECURSIVE SortDesc(_)
SortDesc(reps) ==
    IF reps = <<>> THEN <<>>
    ELSE InsertDesc(reps[Len(reps)], SortDesc(SubSeq(reps, 1, Len(reps) - 1)))

\* newContent.slice(0, r.start) + r.replacement + newContent.slice(r.end)
Splice(newContent, r) ==
    Slice(newContent, 0, r.start) \o r.replacement \o SliceFrom(newContent, r.end)

\* for (const r of replacements) newContent = ...
RECURSIVE ApplyReplacements(_, _)
ApplyReplacements(newContent, reps) ==
    IF reps = <<>> THEN newContent
    ELSE ApplyReplacements(Splice(newContent, Head(reps)), Tail(reps))

\* (mutant) the cursor moves by offsetDiff, the growth of the whole text
DeltaOfAnywhere(r, primaryOffset) ==
    Len(r.replacement) - (r.end - r.start)

\* (mutant) `r.start <= primaryOffset`
DeltaOfAtOrBefore(r, primaryOffset) ==
    IF r.start <= primaryOffset
    THEN Len(r.replacement) - (r.end - r.start)
    ELSE 0

\* if (r.start < primaryOffset) deltaBefore += r.replacement.length - (r.end - r.start)
DeltaOf(r, primaryOffset) ==
    IF r.start < primaryOffset
    THEN Len(r.replacement) - (r.end - r.start)
    ELSE 0

\* for (const r of replacements) ...
RECURSIVE DeltaBefore(_, _)
DeltaBefore(reps, primaryOffset) ==
    IF reps = <<>> THEN 0
    ELSE DeltaOf(Head(reps), primaryOffset) + DeltaBefore(Tail(reps), primaryOffset)

\* if (newOffset < 0) newOffset = 0; if (newOffset > length) newOffset = length
Clamp(newOffset, length) ==
    IF newOffset < 0 THEN 0
    ELSE IF newOffset > length THEN length
    ELSE newOffset

\* newOffset = primaryOffset + deltaBefore, clamped
NewOffset(reps, primaryOffset, newContent) ==
    Clamp(primaryOffset + DeltaBefore(reps, primaryOffset), Len(newContent))

\* (mutant) the operations are applied in the order they were found
SortSkipped(reps) == reps

\* if (replacements.length > 0) replacements.sort(...)
SortIfAny(reps) == IF Len(reps) > 0 THEN SortDesc(reps) ELSE reps

\* Everything the handler computes before it touches the editor.
RewriteResult(original, primaryOffset, replacements, newContent) ==
    [primaryOffset |-> primaryOffset,
     replacements  |-> replacements,
     newContent    |-> newContent,
     changed       |-> Len(replacements) > 0 /\ newContent # original,
     newOffset     |-> NewOffset(replacements, primaryOffset, newContent)]

RewriteWith(original, primaryOffset, replacements) ==
    RewriteResult(original, primaryOffset, replacements,
                  ApplyReplacements(original, replacements))

\* (mutant) the handler honours `if (!this.settings.displayAsShortName) return`
\* of the reading-view post-processor: nothing is rewritten while the
\* setting is off
RewriteOnlyWhenConcealing(original, pos, index, sourcePath) ==
    RewriteWith(original, posToOffset(original, pos),
                IF displayAsShortName
                THEN SortIfAny(CollectReplacements(original, 0, index, sourcePath))
                ELSE <<>>)

Rewrite(original, pos, index, sourcePath) ==
    RewriteWith(original, posToOffset(original, pos),
                SortIfAny(CollectReplacements(original, 0, index, sourcePath)))

Ran(kind, r) ==
    [kind |-> kind, after |-> (lastRun.kind = "applied"), original |-> text,
     cursor |-> cursor, replacements |-> r.replacements,
     editor |-> 1, sourcePath |-> activeFile]

\* The runs that reached the scan, and those that wrote newContent.
Scanned == {"unchanged", "applied", "faultCursor", "faultFallback"}
Wrote   == {"applied", "faultCursor", "faultFallback"}

\* if (!activeFile) return;
HandlerNoFile ==
    /\ activeFile = NoFile
    /\ lastRun' = [kind |-> "noFile", after |-> (lastRun.kind = "applied"),
                   original |-> text, cursor |-> cursor, replacements |-> <<>>,
                   editor |-> 1, sourcePath |-> NoFile]
    /\ UNCHANGED <<text, cursor, activeFile, linkIndex, viewState, typed>>

\* No replacement was recorded: the editor is not touched.
Unchanged(r) ==
    /\ ~r.changed
    /\ lastRun' = Ran("unchanged", r)
    /\ UNCHANGED <<text, cursor, activeFile, linkIndex, viewState, typed>>

HandlerUnchanged ==
    /\ activeFile # NoFile
    /\ Unchanged(Rewrite(text, cursor, linkIndex, activeFile))

\* editor.setValue(newContent); editor.setCursor(editor.offsetToPos(newOffset))
Applied(r) ==
    /\ r.changed
    /\ text' = r.newContent
    /\ cursor' = offsetToPos(r.newContent, r.newOffset)
    /\ lastRun' = Ran("applied", r)
    /\ ViewAfterSetValue
    /\ UNCHANGED <<activeFile, linkIndex, typed>>

\* (mutant) the handler rewrites the content it read in its previous run
HandlerAppliedFromEarlierRead ==
    /\ activeFile # NoFile
    /\ Applied(Rewrite(lastRun.original, lastRun.cursor, linkIndex, activeFile))

HandlerApplied ==
    /\ activeFile # NoFile
    /\ Applied(Rewrite(text, cursor, linkIndex, activeFile))

\* getFirstLinkpathDest or editor.setValue throws: the outer catch logs it.
FaultEarly(r) ==
    /\ CallsResolver(text, 0) \/ r.changed
    /\ lastRun' = Ran("faultEarly", r)
    /\ UNCHANGED <<text, cursor, activeFile, linkIndex, viewState, typed>>

HandlerFaultEarly ==
    /\ activeFile # NoFile
    /\ FaultEarly(Rewrite(text, cursor, linkIndex, activeFile))

\* offsetToPos/setCursor throws after setValue: the inner catch sets the
\* cursor to the end of the new content.
FaultCursor(r) ==
    /\ r.changed
    /\ text' = r.newContent
    /\ cursor' = offsetToPos(r.newContent, Len(r.newContent))
    /\ lastRun' = Ran("faultCursor", r)
    /\ ViewAfterSetValue
    /\ UNCHANGED <<activeFile, linkIndex, typed>>

HandlerFaultCursor ==
    /\ activeFile # NoFile
    /\ FaultCursor(Rewrite(text, cursor, linkIndex, activeFile))

\* The fallback setCursor throws too: the outer catch logs it; the cursor is
\* wherever setValue left it (start of the document, or the old offset clamped).
FaultFallback(r) ==
    /\ r.changed
    /\ text' = r.newContent
    /\ \E o \in {0, Min(r.primaryOffset, Len(r.newContent))} :
           cursor' = offsetToPos(r.newContent, o)
    /\ lastRun' = Ran("faultFallback", r)
    /\ ViewAfterSetValue
    /\ UNCHANGED <<activeFile, linkIndex, typed>>

HandlerFaultFallback ==
    /\ activeFile # NoFile
    /\ FaultFallback(Rewrite(text, cursor, linkIndex, activeFile))

(***************************************************************************)
(* Documents, positions and link indexes the model draws from              *)
(***************************************************************************)
MaxPieces == 2

RewritePieces ==
    { Link(<<"a">>), Link(<<"b">>), Link(<<"d", "/", "a">>),
      <<"x">>, <<"\n">>, <<"[", "[">> }

RECURSIVE DocsOf(_, _)
DocsOf(pieces, n) ==
    IF n = 0 THEN {<<>>}
    ELSE LET shorter == DocsOf(pieces, n - 1) IN
         shorter \cup {d \o p : d \in shorter, p \in pieces}

\* The position of offset o in s, by counting line breaks.
PosAt(s, o) ==
    LET breaks == {k \in 1..o : s[k] = "\n"}
        lineStart == IF breaks = {} THEN 0
                     ELSE CHOOSE k \in breaks : \A j \in breaks : j <= k
    IN  [line |-> Cardinality(breaks), ch |-> o - lineStart]

ValidPos(s) == {PosAt(s, o) : o \in 0..Len(s)}

NotePath == <<"n", ".", "m", "d">>

Names == { <<"a">>, <<"b">>, <<"d", "/", "a">> }

Dests ==
    { NoFile,
      <<"a", ".", "m", "d">>,
      <<"b", ".", "m", "d">>,
      <<"d", "/", "a", ".", "m", "d">> }

\* A linkpath with a folder in it resolves to the file below that folder.
DeepPath == <<"e", "/", "d", "/", "a", ".", "m", "d">>

LinkIndexes ==
    {f \in [Names -> Dests \cup {DeepPath}] :
        /\ f[<<"d", "/", "a">>] = DeepPath
        /\ f[<<"a">>] # DeepPath
        /\ f[<<"b">>] # DeepPath}

\* The index is not consulted while no file is active.
EmptyIndex == [n \in Names |-> IF n = <<"d", "/", "a">> THEN DeepPath ELSE NoFile]

InitRun ==
    [kind |-> "init", after |-> FALSE, original |-> <<>>,
     cursor |-> [line |-> 0, ch |-> 0], replacements |-> <<>>,
     editor |-> 1, sourcePath |-> NoFile]

vars == <<text, cursor, activeFile, linkIndex, lastRun,
          displayAsShortName, lastSetting, decorations, visibleRanges,
          lastUpdate, typed, timers, t, nextId, burst, second, dirty>>

\* No editor-change event has reached the debounced handler yet.
DebounceIdle ==
    /\ timers = {}
    /\ t = 0
    /\ nextId = 1
    /\ burst = [since |-> 0, triggers |-> 0, runs |-> 0, afterEdit |-> 0]

\* The second editor is empty and no editor has changed yet.
EditorsIdle ==
    /\ second = [text |-> <<>>, cursor |-> [line |-> 0, ch |-> 0]]
    /\ dirty = {}

Constructed ==
    [event |-> "construct", docChanged |-> FALSE, viewportChanged |-> FALSE,
     rebuilt |-> TRUE, hadRanges |-> FALSE]

\* constructor(view): this.decorations = this.buildDecorations(view)
ViewConstructed ==
    /\ decorations = buildDecorations(text, visibleRanges, displayAsShortName)
    /\ lastSetting = displayAsShortName
    /\ lastUpdate = Constructed

\* A file is open in the editor with the cursor anywhere; the plugin has
\* loaded with the default setting and the view shows the whole document.
Init ==
    /\ text \in DocsOf(RewritePieces, MaxPieces)
    /\ cursor \in ValidPos(text)
    /\ activeFile \in {NoFile, NotePath}
    /\ linkIndex \in (IF activeFile = NoFile THEN {EmptyIndex} ELSE LinkIndexes)
    /\ lastRun = InitRun
    /\ displayAsShortName = TRUE
    /\ visibleRanges = FullView(text)
    /\ ViewConstructed
    /\ typed = 0
    /\ DebounceIdle
    /\ EditorsIdle

\* The handler is run on the document, once or again.
Next ==
    \/ HandlerNoFile /\ UNCHANGED <<debounceState, editorsState>>
    \/ HandlerUnchanged /\ UNCHANGED <<debounceState, editorsState>>
    \/ HandlerApplied /\ UNCHANGED <<debounceState, editorsState>>
    \/ HandlerFaultEarly /\ UNCHANGED <<debounceState, editorsState>>
    \/ HandlerFaultCursor /\ UNCHANGED <<debounceState, editorsState>>
    \/ HandlerFaultFallback /\ UNCHANGED <<debounceState, editorsState>>

Spec == Init /\ [][Next]_vars

(***************************************************************************)
(* The view plugin under typing, scrolling, folding and the settings toggle *)
(***************************************************************************)
MaxTyped == 2

ConcealPieces ==
    { Link(<<"d", "/", "e", "/", "a">>), Link(<<"a">>), <<"x">>, <<"[", "[">> }

\* The user types (or pastes) a piece at the end of the document; the view
\* keeps its visible ranges or shows the whole document.
Typing(pieces) ==
    /\ typed < MaxTyped
    /\ typed' = typed + 1
    /\ \E p \in pieces : text' = text \o p
    /\ cursor' = PosAt(text', Len(text'))
    /\ \E v \in {visibleRanges, FullView(text')} : visibleRanges' = v
    /\ UpdateView(TRUE, visibleRanges' # visibleRanges)
    /\ UNCHANGED <<activeFile, linkIndex, lastRun>>

TypeUpdate ==
    /\ Typing(ConcealPieces)
    /\ UNCHANGED <<debounceState, editorsState>>

\* The ranges one step of scrolling, folding or unfolding away.
ScrollTargets(ranges, length) ==
    IF Len(ranges) = 1
    THEN {<<[from |-> f, to |-> ranges[1].to]>> :
              f \in {ranges[1].from - 1, ranges[1].from + 1} \cap 0..ranges[1].to}
         \cup
         {<<[from |-> ranges[1].from, to |-> e]>> :
              e \in {ranges[1].to - 1, ranges[1].to + 1} \cap ranges[1].from..length}
         \cup
         (IF ranges = <<[from |-> 0, to |-> length]>>
          THEN {<<[from |-> 0, to |-> g1], [from |-> g2, to |-> length]>> :
                    g1 \in 1..(length - 1), g2 \in 1..(length - 1)}
          ELSE {})
    ELSE {<<[from |-> ranges[1].from, to |-> ranges[2].to]>>}

WellFormedRanges(ranges) ==
    /\ \A k \in 1..Len(ranges) : ranges[k].from <= ranges[k].to
    /\ \A k \in 1..Len(ranges) - 1 : ranges[k].to <= ranges[k + 1].from

\* The viewport moves: update() runs with viewportChanged.
ScrollUpdate ==
    /\ \E v \in ScrollTargets(visibleRanges, Len(text)) :
           /\ WellFormedRanges(v)
           /\ visibleRanges' = v
    /\ UNCHANGED <<text, typed, rewriteState, debounceState, editorsState>>
    /\ UpdateView(FALSE, TRUE)

\* Any other view update (selection, focus): update() runs with no flag set.
PlainUpdate ==
    /\ UNCHANGED <<text, visibleRanges, typed, rewriteState, debounceState,
                   editorsState>>
    /\ UpdateView(FALSE, FALSE)

\* The settings tab toggles displayAsShortName; no view update is dispatched.
ToggleSetting ==
    /\ displayAsShortName' = ~displayAsShortName
    /\ lastUpdate' = [lastUpdate EXCEPT !.event = "toggle"]
    /\ UNCHANGED <<text, lastSetting, decorations, visibleRanges, typed,
                   rewriteState, debounceState, editorsState>>

InitConceal ==
    /\ text = <<>>
    /\ cursor = [line |-> 0, ch |-> 0]
    /\ activeFile = NotePath
    /\ linkIndex = EmptyIndex
    /\ lastRun = InitRun
    /\ displayAsShortName \in BOOLEAN
    /\ visibleRanges = FullView(text)
    /\ ViewConstructed
    /\ typed = 0
    /\ DebounceIdle
    /\ EditorsIdle

NextConceal ==
    \/ TypeUpdate
    \/ ScrollUpdate
    \/ PlainUpdate
    \/ ToggleSetting

SpecConceal == InitConceal /\ [][NextConceal]_vars

(***************************************************************************)
(* The handler on references longer than the path they resolve to          *)
(***************************************************************************)
\* A reference written with the extension, [[a.md]], resolves to a.md, whose
\* path without extension is shorter than the name written.
WithExtension == <<"a", ".", "m", "d">>

ShrinkPieces == { Link(WithExtension), Link(<<"a">>), <<"x">> }

ShrinkIndexes ==
    {f \in [{<<"a">>, WithExtension} -> Dests] :
        /\ f[<<"a">>] \in {<<"a", ".", "m", "d">>, <<"d", "/", "a", ".", "m", "d">>}
        /\ f[WithExtension] \in {NoFile, <<"a", ".", "m", "d">>}}

InitShrink ==
    /\ text \in DocsOf(ShrinkPieces, MaxPieces)
    /\ cursor \in ValidPos(text)
    /\ activeFile \in {NoFile, NotePath}
    /\ linkIndex \in ShrinkIndexes
    /\ lastRun = InitRun
    /\ displayAsShortName = TRUE
    /\ visibleRanges = FullView(text)
    /\ ViewConstructed
    /\ typed = 0
    /\ DebounceIdle
    /\ EditorsIdle

SpecShrink == InitShrink /\ [][Next]_vars

(***************************************************************************)
(* The handler and the view plugin side by side, with either setting       *)
(***************************************************************************)
StoredPieces == { Link(<<"a">>), Link(<<"d", "/", "a">>), <<"x">> }

StoredIndexes ==
    {f \in LinkIndexes :
        /\ f[<<"a">>] \in {NoFile, <<"d", "/", "a", ".", "m", "d">>}
        /\ f[<<"b">>] = NoFile}

\* The windows of the view multiply with the length of the document: the
\* documents here are one piece shorter than those of the handler alone.
StoredDocs == DocsOf(StoredPieces, MaxPieces - 1)

InitStored ==
    /\ text \in StoredDocs
    /\ cursor = PosAt(text, Len(text))
    /\ activeFile \in {NoFile, NotePath}
    /\ linkIndex \in (IF activeFile = NoFile THEN {EmptyIndex} ELSE StoredIndexes)
    /\ lastRun = InitRun
    /\ displayAsShortName \in BOOLEAN
    /\ visibleRanges = FullView(text)
    /\ ViewConstructed
    /\ typed = 0
    /\ DebounceIdle
    /\ EditorsIdle

NextStored ==
    \/ Next
    \/ ScrollUpdate
    \/ PlainUpdate
    \/ ToggleSetting

SpecStored == InitStored /\ [][NextStored]_vars

(***************************************************************************)
(* debounce(handleEditorChange, 220) on 'editor-change' (src/main.ts 19-25, *)
(* 93-98), with time in milliseconds                                        *)
(***************************************************************************)
Wait == 220

\* (mutant) the wrapper without clearTimeout(t)
DebouncedNoClear(args) ==
    /\ timers' = timers \cup {[id |-> nextId, remaining |-> Wait, args |-> args]}
    /\ t' = nextId
    /\ nextId' = nextId + 1

\* (...args) => { clearTimeout(t); t = setTimeout(() => fn(...args), wait); }
Debounced(args) ==
    /\ timers' = {x \in timers : x.id # t}
                      \cup {[id |-> nextId, remaining |-> Wait, args |-> args]}
    /\ t' = nextId
    /\ nextId' = nextId + 1

DebouncePieces == { Link(<<"a">>), <<"x">> }

\* The user edits the document: the workspace fires 'editor-change' and the
\* debounced handler is called.
Triggered ==
    [since     |-> 0,
     triggers  |-> IF timers = {} THEN 1 ELSE burst.triggers + 1,
     runs      |-> IF timers = {} THEN 0 ELSE burst.runs,
     afterEdit |-> 0]

EditorChange ==
    /\ Typing(DebouncePieces)
    /\ Debounced(1)
    /\ burst' = Triggered
    /\ UNCHANGED editorsState

\* One millisecond passes; a timeout that is due fires first.
Tick ==
    /\ timers # {} \/ burst.since < Wait
    /\ \A x \in timers : x.remaining > 0
    /\ timers' = {[x EXCEPT !.remaining = @ - 1] : x \in timers}
    /\ burst' = [burst EXCEPT !.since = Min(@ + 1, Wait)]
    /\ UNCHANGED <<text, typed, rewriteState, viewState, t, nextId, editorsState>>

\* The milliseconds until the first pending timeout is due.
RECURSIVE MinRemaining(_)
MinRemaining(pending) ==
    IF pending = {} THEN Wait
    ELSE Min((CHOOSE x \in pending : TRUE).remaining,
             MinRemaining(pending \ {CHOOSE x \in pending : TRUE}))

\* Time passes until the first pending timeout is due, or, with nothing
\* pending, until the quiet interval is over.
Elapse ==
    /\ timers # {} \/ burst.since < Wait
    /\ \A x \in timers : x.remaining > 0
    /\ timers' = {[x EXCEPT !.remaining = @ - MinRemaining(timers)] : x \in timers}
    /\ burst' = [burst EXCEPT !.since = Min(@ + MinRemaining(timers), Wait)]
    /\ UNCHANGED <<text, typed, rewriteState, viewState, t, nextId, editorsState>>

\* fn(...args): handleEditorChange runs to its end (it awaits nothing).
HandlerRun ==
    \/ HandlerNoFile
    \/ HandlerUnchanged
    \/ HandlerApplied
    \/ HandlerFaultEarly
    \/ HandlerFaultCursor
    \/ HandlerFaultFallback

\* A timeout that is due runs its callback () => fn(...args).
TimerFires ==
    /\ \E x \in timers :
           /\ x.remaining = 0
           /\ timers' = timers \ {x}
    /\ burst' = [burst EXCEPT !.runs = @ + 1, !.afterEdit = @ + 1]
    /\ UNCHANGED <<t, nextId, editorsState>>
    /\ HandlerRun

InitDebounce ==
    /\ text = <<>>
    /\ cursor = [line |-> 0, ch |-> 0]
    /\ activeFile \in {NoFile, NotePath}
    /\ linkIndex \in {f \in LinkIndexes :
                         /\ f[<<"a">>] = <<"d", "/", "a", ".", "m", "d">>
                         /\ f[<<"b">>] = NoFile}
    /\ lastRun = InitRun
    /\ displayAsShortName = TRUE
    /\ visibleRanges = FullView(text)
    /\ ViewConstructed
    /\ typed = 0
    /\ DebounceIdle
    /\ EditorsIdle

NextDebounce ==
    \/ EditorChange
    \/ Tick
    \/ TimerFires

SpecDebounce == InitDebounce /\ [][NextDebounce]_vars

(***************************************************************************)
(* The same, with editor.setValue raising 'editor-change' in its turn      *)
(***************************************************************************)
\* Every edit of the user and every write of the handler sets one timeout;
\* a chain of writes is cut once this many were set.
MaxTimeouts == 2 * MaxTyped + 2

\* What follows the run of the callback of timeout x: a run that wrote calls
\* the debounced handler again with the same editor, any other run leaves
\* only the timeout gone.
EchoAfter(x) ==
    IF lastRun'.kind \in Wrote
    THEN /\ timers' = {y \in timers \ {x} : y.id # t}
                          \cup {[id |-> nextId, remaining |-> Wait, args |-> x.args]}
         /\ t' = nextId
         /\ nextId' = nextId + 1
         /\ burst' = [since |-> 0, triggers |-> 1, runs |-> 0,
                      afterEdit |-> burst.afterEdit + 1]
    ELSE /\ timers' = timers \ {x}
         /\ burst' = [burst EXCEPT !.runs = @ + 1, !.afterEdit = @ + 1]
         /\ UNCHANGED <<t, nextId>>

\* A timeout that is due runs the handler; its write, if any, is a trigger.
TimerFiresEcho ==
    /\ nextId <= MaxTimeouts
    /\ HandlerRun
    /\ \E x \in timers :
           /\ x.remaining = 0
           /\ EchoAfter(x)
    /\ UNCHANGED editorsState

QuiesceIndexes ==
    {f \in LinkIndexes :
        \/ f[<<"a">>] = <<"d", "/", "a", ".", "m", "d">> /\ f[<<"b">>] = NoFile
        \/ f[<<"a">>] = <<"b", ".", "m", "d">> /\ f[<<"b">>] = <<"b", ".", "m", "d">>
        \/ f[<<"a">>] = <<"b", ".", "m", "d">> /\ f[<<"b">>] = <<"a", ".", "m", "d">>}

InitQuiesce ==
    /\ text = <<>>
    /\ cursor = [line |-> 0, ch |-> 0]
    /\ activeFile \in {NoFile, NotePath}
    /\ linkIndex \in QuiesceIndexes
    /\ lastRun = InitRun
    /\ displayAsShortName = TRUE
    /\ visibleRanges = FullView(text)
    /\ ViewConstructed
    /\ typed = 0
    /\ DebounceIdle
    /\ EditorsIdle

NextQuiesce ==
    \/ EditorChange
    \/ Elapse
    \/ TimerFiresEcho

\* TimerFiresEcho can be taken: a run of the handler always has an outcome.
Runnable ==
    /\ nextId <= MaxTimeouts
    /\ \E x \in timers : x.remaining = 0

\* Time passes and the event loop runs the callback of a timeout that is due;
\* the user is free to stop editing.  A step of TimerFiresEcho leaves no
\* timeout due, so its weak fairness, WF_vars(TimerFiresEcho), is that
\* Runnable is false again and again.
SpecQuiesce ==
    /\ InitQuiesce
    /\ [][NextQuiesce]_vars
    /\ WF_vars(Elapse)
    /\ []<>(~Runnable)

(***************************************************************************)
(* Two editors of the workspace behind the one debounced handler: the       *)
(* first shows NotePath and owns text, cursor and the view; the second      *)
(* shows OtherPath.  The user edits the editor of the active file and may   *)
(* make another file, or none, the active one at any time.                  *)
(***************************************************************************)
OtherPath == <<"o", ".", "m", "d">>

\* The file an editor shows.
FileOf(editor) == IF editor = 1 THEN NotePath ELSE OtherPath

\* The user edits the first editor.
EditFirst ==
    /\ activeFile = NotePath
    /\ Typing(DebouncePieces)
    /\ Debounced(1)
    /\ burst' = Triggered
    /\ dirty' = dirty \cup {1}
    /\ UNCHANGED second

\* The user edits the second editor.
EditSecond ==
    /\ activeFile = OtherPath
    /\ typed < MaxTyped
    /\ typed' = typed + 1
    /\ \E p \in DebouncePieces :
           second' = [text |-> second.text \o p,
                      cursor |-> PosAt(second.text \o p, Len(second.text \o p))]
    /\ Debounced(2)
    /\ burst' = Triggered
    /\ dirty' = dirty \cup {2}
    /\ UNCHANGED <<text, rewriteState, viewState>>

\* The user makes another file the active one, or closes the active one.
SwitchFile ==
    /\ \E f \in {NoFile, NotePath, OtherPath} \ {activeFile} : activeFile' = f
    /\ UNCHANGED <<text, cursor, linkIndex, lastRun, viewState, typed,
                   debounceState, editorsState>>

RanSecond(kind, ops) ==
    [kind |-> kind, after |-> (lastRun.kind = "applied"), original |-> second.text,
     cursor |-> second.cursor, replacements |-> ops,
     editor |-> 2, sourcePath |-> activeFile]

\* The outcomes of handleEditorChange(editor) past the test of the active
\* file, for the second editor: nothing to write, the write and the cursor,
\* and the three faults.
SecondOutcome(r) ==
    \/ /\ ~r.changed
       /\ second' = second
       /\ lastRun' = RanSecond("unchanged", r.replacements)
    \/ /\ r.changed
       /\ second' = [text |-> r.newContent,
                     cursor |-> offsetToPos(r.newContent, r.newOffset)]
       /\ lastRun' = RanSecond("applied", r.replacements)
    \/ /\ CallsResolver(second.text, 0) \/ r.changed
       /\ second' = second
       /\ lastRun' = RanSecond("faultEarly", r.replacements)
    \/ /\ r.changed
       /\ second' = [text |-> r.newContent,
                     cursor |-> offsetToPos(r.newContent, Len(r.newContent))]
       /\ lastRun' = RanSecond("faultCursor", r.replacements)
    \/ /\ r.changed
       /\ \E o \in {0, Min(r.primaryOffset, Len(r.newContent))} :
              second' = [text |-> r.newContent,
                         cursor |-> offsetToPos(r.newContent, o)]
       /\ lastRun' = RanSecond("faultFallback", r.replacements)

\* handleEditorChange(editor) for the second editor.
HandlerSecond ==
    /\ \/ /\ activeFile = NoFile
          /\ second' = second
          /\ lastRun' = [RanSecond("noFile", <<>>) EXCEPT !.sourcePath = NoFile]
       \/ /\ activeFile # NoFile
          /\ SecondOutcome(Rewrite(second.text, second.cursor, linkIndex, activeFile))
    /\ UNCHANGED <<text, cursor, activeFile, linkIndex, viewState, typed>>

\* The callback of a due timeout set for the first editor.
TimerFiresFirst ==
    /\ \E x \in timers :
           /\ x.remaining = 0
           /\ x.args = 1
           /\ timers' = timers \ {x}
    /\ burst' = [burst EXCEPT !.runs = @ + 1, !.afterEdit = @ + 1]
    /\ dirty' = dirty \ {1}
    /\ UNCHANGED <<t, nextId, second>>
    /\ HandlerRun

\* The callback of a due timeout set for the second editor.
TimerFiresSecond ==
    /\ \E x \in timers :
           /\ x.remaining = 0
           /\ x.args = 2
           /\ timers' = timers \ {x}
    /\ burst' = [burst EXCEPT !.runs = @ + 1, !.afterEdit = @ + 1]
    /\ dirty' = dirty \ {2}
    /\ UNCHANGED <<t, nextId>>
    /\ HandlerSecond

InitEditors ==
    /\ text = <<>>
    /\ cursor = [line |-> 0, ch |-> 0]
    /\ activeFile = NotePath
    /\ linkIndex \in {f \in LinkIndexes :
                         /\ f[<<"a">>] = <<"d", "/", "a", ".", "m", "d">>
                         /\ f[<<"b">>] = NoFile}
    /\ lastRun = InitRun
    /\ displayAsShortName = TRUE
    /\ visibleRanges = FullView(text)
    /\ ViewConstructed
    /\ typed = 0
    /\ DebounceIdle
    /\ EditorsIdle

NextEditors ==
    \/ EditFirst
    \/ EditSecond
    \/ SwitchFile
    \/ Elapse
    \/ TimerFiresFirst
    \/ TimerFiresSecond

SpecEditors == InitEditors /\ [][NextEditors]_vars

(***************************************************************************)
(* Vocabulary of the properties of the handler                             *)
(***************************************************************************)
\* The references the scan of s finds, left to right.
RECURSIVE Occurrences(_, _)
RECURSIVE OccurrencesFrom(_, _)
OccurrencesFrom(s, match) ==
    IF match.index = -1 THEN {}
    ELSE {match} \cup Occurrences(s, match.index + Len(match.full))

Occurrences(s, lastIndex) == OccurrencesFrom(s, RegexExec(s, lastIndex))

\* The offset of position pos in s, by the line breaks before it.
OffsetOf(s, pos) == CHOOSE o \in 0..Len(s) : PosAt(s, o) = pos

\* The operations the last run applied to the text.
OpsApplied ==
    IF lastRun.kind \in Wrote
    THEN {lastRun.replacements[k] : k \in 1..Len(lastRun.replacements)}
    ELSE {}

OpsRecorded == {lastRun.replacements[k] : k \in 1..Len(lastRun.replacements)}

RECURSIVE SumGrowth(_)
SumGrowth(ops) ==
    IF ops = {} THEN 0
    ELSE LET r == CHOOSE x \in ops : TRUE IN
         (Len(r.replacement) - (r.end - r.start)) + SumGrowth(ops \ {r})

\* Where offset o of the original text lies after the operations before it.
Moved(ops, o) == o + SumGrowth({r \in ops : r.start < o})

\* The occurrence m of the original text stands unchanged in the text now.
StandsUnchanged(m) ==
    /\ \A r \in OpsRecorded :
           r.end <= m.index \/ r.start >= m.index + Len(m.full)
    /\ SubSeq(text, Moved(OpsApplied, m.index) + 1,
              Moved(OpsApplied, m.index) + Len(m.full)) = m.full

\* The occurrence m of the original text was replaced by `replacement`.
WasReplacedBy(m, replacement) ==
    /\ \E r \in OpsRecorded :
           /\ r.start = m.index
           /\ r.end = m.index + Len(m.full)
           /\ r.replacement = replacement
    /\ lastRun.kind \in Wrote =>
           SubSeq(text, Moved(OpsApplied, m.index) + 1,
                  Moved(OpsApplied, m.index) + Len(replacement)) = replacement

\* No canonical name the index returns holds a ']', and every separator-free
\* one resolves to itself or to nothing.
StableIndex(index) ==
    \A n \in DOMAIN index :
        /\ ~Includes(StripMd(index[n]), "]")
        /\ (index[n] # NoFile /\ ~Includes(StripMd(index[n]), "/")) =>
               LET again == getFirstLinkpathDest(index, StripMd(index[n]), NotePath) IN
               again = NoFile \/ StripMd(again) = StripMd(index[n])

(***************************************************************************)
(* Properties of the handler                                               *)
(***************************************************************************)
\* C1 (as stated): for any link index, a run that follows a run which applied
\* a rewrite records no replacement and leaves the text as it was.
C1_IdempotentAnyIndex ==
    lastRun.after =>
        /\ lastRun.replacements = <<>>
        /\ text = lastRun.original

\* C1 (amended): for a link index whose canonical names hold no ']' and whose
\* separator-free canonical names resolve to themselves or to nothing, a run
\* that follows a run which applied a rewrite records no replacement and
\* leaves the text as it was.
C1_IdempotentStableIndex ==
    (lastRun.after /\ StableIndex(linkIndex)) =>
        /\ lastRun.replacements = <<>>
        /\ text = lastRun.original

C1_Witness ==
    /\ lastRun.after
    /\ lastRun.kind = "unchanged"
    /\ StableIndex(linkIndex)
    /\ \E m \in Occurrences(text, 0) : ~Includes(m.inner, "/")
    /\ \E m \in Occurrences(text, 0) : Includes(m.inner, "/")

\* C2: every occurrence whose inner text contains '/' gets no replacement
\* operation and stands character for character in the text after the run.
C2_FullPathPreserved ==
    lastRun.kind # "init" =>
        \A m \in Occurrences(lastRun.original, 0) :
            Includes(m.inner, "/") => StandsUnchanged(m)

C2_Witness ==
    /\ lastRun.kind = "applied"
    /\ \E m \in Occurrences(lastRun.original, 0) :
           /\ Includes(m.inner, "/")
           /\ Moved(OpsApplied, m.index) > m.index

\* C3: an occurrence the index does not resolve stands unchanged after the
\* run, and every other short occurrence whose destination differs from its
\* text is still replaced by the full path in the same run.
C3_UnresolvedPreserved ==
    lastRun.kind \in Scanned =>
        \A m \in Occurrences(lastRun.original, 0) :
            ~Includes(m.inner, "/") =>
                LET dest == getFirstLinkpathDest(linkIndex, m.inner, activeFile) IN
                /\ dest = NoFile => StandsUnchanged(m)
                /\ (dest # NoFile /\ Link(StripMd(dest)) # m.full) =>
                       WasReplacedBy(m, Link(StripMd(dest)))

C3_Witness ==
    /\ lastRun.kind = "applied"
    /\ \E m1, m2 \in Occurrences(lastRun.original, 0) :
           /\ m1.index < m2.index
           /\ ~Includes(m1.inner, "/")
           /\ getFirstLinkpathDest(linkIndex, m1.inner, activeFile) = NoFile
           /\ StandsUnchanged(m1)
           /\ ~Includes(m2.inner, "/")
           /\ getFirstLinkpathDest(linkIndex, m2.inner, activeFile) # NoFile
           /\ WasReplacedBy(m2, Link(StripMd(linkIndex[m2.inner])))

\* C4: after a run that changed the text, the cursor is at the original
\* offset plus the growth of exactly the operations that start strictly
\* before it, clamped into [0, len(text)].
C4_CursorRemapped ==
    lastRun.kind = "applied" =>
        LET old   == OffsetOf(lastRun.original, lastRun.cursor)
            moved == Moved(OpsRecorded, old)
        IN  cursor = PosAt(text, Max(0, Min(moved, Len(text))))

C4_Witness ==
    /\ lastRun.kind = "applied"
    /\ \E r1, r2 \in OpsRecorded :
           /\ r1.start < OffsetOf(lastRun.original, lastRun.cursor)
           /\ r2.start = OffsetOf(lastRun.original, lastRun.cursor)
    /\ cursor # lastRun.cursor

\* C9 (as stated): a run that hit a fault leaves text and cursor as they
\* were, and a run that applied the new text set the remapped cursor.
C9_AllOrNothing ==
    /\ lastRun.kind \in {"faultEarly", "faultCursor", "faultFallback"} =>
           /\ text = lastRun.original
           /\ cursor = lastRun.cursor
    /\ lastRun.kind \in Wrote =>
           cursor = PosAt(text,
                          Max(0, Min(Moved(OpsRecorded,
                                           OffsetOf(lastRun.original, lastRun.cursor)),
                                     Len(text))))

(***************************************************************************)
(* Properties of the view plugin                                           *)
(***************************************************************************)
\* The character of the document at offset k.
CharAt(k) == text[k + 1]

\* Range r hides the folder prefix of a reference that lies in window w and
\* closes at offset c: it starts right after "[[", ends with the last '/'
\* of the inner text, and stays inside the delimiters.
HidesPrefixOf(r, w, c) ==
    /\ w.from <= r.from - 2
    /\ c + 2 <= w.to
    /\ CharAt(r.from - 2) = "[" /\ CharAt(r.from - 1) = "["
    /\ \A k \in r.from..(c - 1) : CharAt(k) # "]"
    /\ CharAt(c) = "]" /\ CharAt(c + 1) = "]"
    /\ r.from < r.to /\ r.to <= c
    /\ CharAt(r.to - 1) = "/"
    /\ \A k \in r.to..(c - 1) : CharAt(k) # "/"

\* How many of the held ranges start right after the "[[" at offset start.
RangesOpenedAt(start) ==
    Cardinality({j \in 1..Len(decorations) : decorations[j].from = start + 2})

\* C5: decorations built while the setting was off are empty.
C5_EmptyWhenDisabled ==
    ~lastSetting => decorations = <<>>

C5_Witness ==
    /\ lastUpdate.event = "update"
    /\ lastUpdate.rebuilt
    /\ lastUpdate.hadRanges
    /\ ~lastSetting
    /\ decorations = <<>>
    /\ \E k \in 1..Len(visibleRanges) :
           \E m \in Occurrences(Slice(text, visibleRanges[k].from, visibleRanges[k].to), 0) :
               Includes(m.inner, "/")

\* C6: with the setting on, every range held hides exactly the folder prefix
\* of a reference inside a visible window, every reference of a window whose
\* inner text has a '/' has exactly one range, and one without has none.
C6_RangeContainment ==
    lastSetting =>
        /\ \A j \in 1..Len(decorations) :
               \E k \in 1..Len(visibleRanges) :
                   \E c \in 0..Len(text) :
                       HidesPrefixOf(decorations[j], visibleRanges[k], c)
        /\ \A k \in 1..Len(visibleRanges) :
               \A m \in Occurrences(Slice(text, visibleRanges[k].from,
                                          visibleRanges[k].to), 0) :
                   RangesOpenedAt(visibleRanges[k].from + m.index) =
                       (IF Includes(m.inner, "/") THEN 1 ELSE 0)

C6_Witness ==
    /\ lastSetting
    /\ lastUpdate.event = "update"
    /\ visibleRanges = <<[from |-> 0, to |-> Len(text)]>>
    /\ Len(decorations) = 1
    /\ decorations[1].from > 2
    /\ decorations[1].to - decorations[1].from = 4
    /\ \E m \in Occurrences(text, 0) : ~Includes(m.inner, "/")

\* C7: the ranges held are in non-decreasing start order and do not overlap.
C7_RangesOrdered ==
    \A j \in 1..(Len(decorations) - 1) :
        /\ decorations[j].from <= decorations[j + 1].from
        /\ decorations[j].to <= decorations[j + 1].from

C7_Witness ==
    /\ Len(visibleRanges) = 2
    /\ Len(decorations) = 2
    /\ decorations[1].to <= visibleRanges[1].to
    /\ decorations[2].from >= visibleRanges[2].from

\* C8: after the constructor and after every update the decorations held are
\* those of a build over the current text, windows and setting, and the
\* remembered setting is the current one.
C8_FreshAfterUpdate ==
    lastUpdate.event \in {"construct", "update"} =>
        /\ decorations = buildDecorations(text, visibleRanges, displayAsShortName)
        /\ lastSetting = displayAsShortName

C8_Witness ==
    /\ lastUpdate.event = "update"
    /\ ~lastUpdate.docChanged
    /\ ~lastUpdate.viewportChanged
    /\ lastUpdate.rebuilt
    /\ decorations # <<>>

(***************************************************************************)
(* Properties of the debounce                                              *)
(***************************************************************************)
\* C10: at most one invocation is pending, and it is the one of the last
\* trigger, due a full interval after it; a trigger less than the interval
\* after the previous one finds that one still pending and not yet run, so it
\* joins its burst; a burst gets no handler run before its last trigger has
\* been quiet for the interval, and exactly one once nothing is pending.
C10_DebounceCoalesces ==
    /\ Cardinality(timers) <= 1
    /\ \A x \in timers : x.id = t /\ x.remaining = Wait - burst.since
    /\ (burst.triggers > 0 /\ burst.since < Wait) => (timers # {} /\ burst.runs = 0)
    /\ burst.runs <= 1
    /\ (burst.triggers > 0 /\ timers = {}) => (burst.runs = 1 /\ burst.since = Wait)

C10_Witness ==
    /\ burst.triggers >= 2
    /\ burst.runs = 1
    /\ timers = {}
    /\ lastRun.kind = "applied"

(***************************************************************************)
(* The stored form, stated without the handler's own steps                 *)
(***************************************************************************)
\* The operations a document calls for: one for every reference without a
\* separator that resolves to a path other than the one written.
ExpectedOps(original, index, sourcePath) ==
    {[start |-> m.index, end |-> m.index + Len(m.full),
      replacement |-> Link(StripMd(getFirstLinkpathDest(index, m.inner, sourcePath)))] :
        m \in {o \in Occurrences(original, 0) :
                  /\ ~Includes(o.inner, "/")
                  /\ getFirstLinkpathDest(index, o.inner, sourcePath) # NoFile
                  /\ Link(StripMd(getFirstLinkpathDest(index, o.inner, sourcePath)))
                         # o.full}}

\* s from offset i on, with every span of ops replaced at once, read left to
\* right.
RECURSIVE Substituted(_, _, _)
RECURSIVE SubstitutedAt(_, _, _)
SubstitutedAt(s, ops, r) ==
    r.replacement \o Substituted(s, ops, r.end)

Substituted(s, ops, i) ==
    IF i >= Len(s) THEN <<>>
    ELSE IF \E r \in ops : r.start = i
         THEN SubstitutedAt(s, ops, CHOOSE r \in ops : r.start = i)
    ELSE <<s[i + 1]>> \o Substituted(s, ops, i + 1)

\* C11: a step of the view plugin or of the settings tab (a build, a viewport
\* change, a toggle) leaves the text as it is, and the text a handler run
\* leaves when it meets no fault is determined by the text it read and the
\* link index alone: the references that resolve replaced by their full
\* paths, whatever the setting.
C11_StoredFormApart ==
    [][/\ lastRun' = lastRun => text' = text
       /\ (lastRun' # lastRun /\ lastRun'.kind \in {"unchanged", "applied"}) =>
              text' = Substituted(text, ExpectedOps(text, linkIndex, activeFile), 0)]_vars

C11_Witness ==
    /\ lastRun.kind = "applied"
    /\ ~displayAsShortName
    /\ ~lastSetting
    /\ lastUpdate.event = "update"
    /\ \E m \in Occurrences(text, 0) : Includes(m.inner, "/")
    /\ \E m \in Occurrences(lastRun.original, 0) : ~Includes(m.inner, "/")

\* C12: the operations recorded are spans of the text read that do not
\* overlap, and the text written is the text read with every span replaced
\* at once and every other character kept in place.
C12_ReplacementApplication ==
    lastRun.kind # "init" =>
        /\ \A r \in OpsRecorded :
               /\ 0 <= r.start /\ r.start < r.end /\ r.end <= Len(lastRun.original)
        /\ \A r1, r2 \in OpsRecorded :
               r1 # r2 => (r1.end <= r2.start \/ r2.end <= r1.start)
        /\ lastRun.kind \in Wrote =>
               text = Substituted(lastRun.original, OpsRecorded, 0)

C12_Witness ==
    /\ lastRun.kind = "applied"
    /\ \E r1, r2 \in OpsRecorded :
           /\ r1.start < r2.start
           /\ Len(r1.replacement) > r1.end - r1.start
           /\ Len(r2.replacement) > r2.end - r2.start
    /\ lastRun.replacements[1].start > lastRun.replacements[2].start

\* The well-formed short references that stand in s: the offsets where
\* "[[" n "]]" is written for a name n of the index without separator.
ShortReferencesIn(s, index) ==
    {[index |-> i, inner |-> n, full |-> Link(n)] :
        i \in {k \in 0..Len(s) : TRUE},
        n \in {x \in DOMAIN index : ~Includes(x, "/")}}
    \cap {[index |-> i, inner |-> SubSeq(s, i + 3, j - 2), full |-> SubSeq(s, i + 1, j)] :
              i \in 0..Len(s), j \in 0..Len(s)}

\* C13 (as stated): the resolver is only called with an inner text free of
\* bracket delimiters, and every well-formed short reference of the text, also
\* one that follows an unterminated "[[", is found: when it resolves to another
\* path an operation is recorded for exactly its span.
C13_OnlyWellFormedResolved ==
    lastRun.kind \in Scanned =>
        /\ \A m \in Occurrences(lastRun.original, 0) :
               ~Includes(m.inner, "/") =>
                   (~Includes(m.inner, "[") /\ ~Includes(m.inner, "]"))
        /\ \A w \in ShortReferencesIn(lastRun.original, linkIndex) :
               (/\ getFirstLinkpathDest(linkIndex, w.inner, lastRun.sourcePath) # NoFile
                /\ Link(StripMd(getFirstLinkpathDest(linkIndex, w.inner,
                                                      lastRun.sourcePath))) # w.full)
               => \E r \in OpsRecorded :
                      r.start = w.index /\ r.end = w.index + Len(w.full)

\* C14: after a run that changed the text, a cursor that no operation starts
\* before keeps its offset, and a cursor that is not strictly inside a
\* replaced span has after it the rewritten form of what followed it before.
C14_CursorLogicalPosition ==
    lastRun.kind = "applied" =>
        LET old == OffsetOf(lastRun.original, lastRun.cursor)
            new == OffsetOf(text, cursor)
        IN  /\ (\A r \in OpsRecorded : r.start >= old) => new = old
            /\ (\A r \in OpsRecorded : ~(r.start < old /\ old < r.end)) =>
                   SliceFrom(text, new) = Substituted(lastRun.original, OpsRecorded, old)

C14_Witness ==
    /\ lastRun.kind = "applied"
    /\ \E r1, r2 \in OpsRecorded :
           /\ r1.end <= OffsetOf(lastRun.original, lastRun.cursor)
           /\ r2.start >= OffsetOf(lastRun.original, lastRun.cursor)
    /\ OffsetOf(text, cursor) > OffsetOf(lastRun.original, lastRun.cursor)
    /\ OffsetOf(text, cursor) < Len(text)

\* C19 (as stated): after a run that changed the text, a cursor that was
\* inside a replaced span (start < cursor <= end) lies within the span its
\* replacement occupies in the new text, ends included.
C19_CursorStaysInside ==
    lastRun.kind = "applied" =>
        \A r \in OpsRecorded :
            (/\ r.start < OffsetOf(lastRun.original, lastRun.cursor)
             /\ OffsetOf(lastRun.original, lastRun.cursor) <= r.end)
            => /\ Moved(OpsRecorded, r.start) <= OffsetOf(text, cursor)
               /\ OffsetOf(text, cursor)
                      <= Moved(OpsRecorded, r.start) + Len(r.replacement)

(***************************************************************************)
(* Properties of the handler under edits, timers and several editors       *)
(***************************************************************************)
\* C15: the text of the editor changes only by an edit of the user, which
\* appends to it, or by a handler run that read the text as it stood right
\* before the write and wrote that text with its own operations applied:
\* no result computed from an earlier text is written over a later edit.
C15_SnapshotCoherence ==
    [][text' # text =>
          \/ /\ lastRun' = lastRun
             /\ typed' = typed + 1
             /\ SubSeq(text', 1, Len(text)) = text
          \/ /\ lastRun'.kind \in Wrote
             /\ lastRun'.original = text
             /\ text' = Substituted(text,
                                    {lastRun'.replacements[k] :
                                         k \in 1..Len(lastRun'.replacements)}, 0)]_vars

C15_Witness ==
    /\ lastRun.kind = "applied"
    /\ lastRun.after
    /\ typed = MaxTyped
    /\ \E m \in Occurrences(lastRun.original, 0) : Includes(m.inner, "/")

\* After the last edit at most two handler runs follow, and after the second
\* nothing is pending.
QuietAfterTwoRuns ==
    /\ burst.afterEdit <= 2
    /\ burst.afterEdit = 2 => timers = {}

\* C16 (as stated): for any link index, a write of the handler being a
\* trigger, at most two handler runs follow the last edit and nothing is
\* pending after the second.
C16_QuiescentAnyIndex == QuietAfterTwoRuns

\* C16 (amended): for a link index whose canonical names hold no ']' and whose
\* separator-free canonical names resolve to themselves or to nothing, at most
\* two handler runs follow the last edit, nothing is pending after the
\* second, no more than two timeouts are set per edit, and eventually nothing
\* is pending for good.
C16_QuiescentStableIndex ==
    /\ [](StableIndex(linkIndex) =>
              (QuietAfterTwoRuns /\ nextId <= 2 * typed + 1))
    /\ <>[](StableIndex(linkIndex) => timers = {})

C16_Witness ==
    /\ StableIndex(linkIndex)
    /\ typed = MaxTyped
    /\ burst.afterEdit = 2
    /\ timers = {}
    /\ lastRun.kind = "unchanged"
    /\ lastRun.after

\* C17 (as stated): every run that reaches the resolver resolves against the
\* path of the file shown by the editor it reads and rewrites.
C17_ContextIsOwnPath ==
    lastRun.kind \in Scanned \cup {"faultEarly"} =>
        lastRun.sourcePath = FileOf(lastRun.editor)

\* C18 (as stated, in the form a finite run refutes): once no invocation is
\* pending, no editor is left with a change that no handler run has followed.
C18_NoEditorLeftBehind ==
    timers = {} => dirty = {}

====
